---- MODULE Spec2Model ----
(***************************************************************************)
(* Model of the two transports of esp-ml307: EspHttp (src/esp_http.cc), a  *)
(* request/response client with a bounded connect retry, and EspUdp        *)
(* (src/esp_udp.cc), a connected datagram session with a background        *)
(* receive thread.  The two classes share no state; a behaviour exercises  *)
(* one instance of one of them (variable obj).                             *)
(***************************************************************************)
EXTENDS Integers, Sequences, FiniteSets, TLC

(* ------------------------------ bounds -------------------------------- *)
\* connection objects esp_http_client_init can hand out before it reports
\* out-of-memory for good
MaxHandles == 4
\* descriptors the socket layer can have open at once
MaxFds == 2
\* datagrams the transport delivers to the session in one behaviour
MaxDatagrams == 2
\* socket writes counted in one behaviour
MaxSends == 2
\* bytes the body accumulator holds before the transport stops pushing
MaxBody == 1

(* -------------------------- program constants ------------------------- *)
max_connect_retries == 3
NULL == 0
NO_FD == -1
HOSTNAME_SIZE == 256
AF_UNSPEC == 0
AF_INET == 2
AF_INET6 == 10

ESP_OK == "ESP_OK"
ConnectErrors == {"ESP_ERR_HTTP_CONNECT", "ESP_ERR_HTTP_EAGAIN", "ESP_FAIL"}

(* ------------------------- inputs of the model ------------------------ *)
\* URLs are sequences of characters, as the C string resolve_url scans.
UrlPlain    == <<"h", ":", "/", "/", "a", "/", "p">>
UrlPort     == <<"h", ":", "/", "/", "b", ":", "8">>
UrlBracket  == <<"h", ":", "/", "/", "[", "c", "]", "/", "p">>
UrlNoClose  == <<"h", ":", "/", "/", "[", "c">>
UrlPathOnly == <<"/", "p">>
UrlNoScheme == <<"a", "/", "p", ":", "8">>
Urls == {UrlPlain, UrlPort, UrlBracket, UrlNoClose, UrlPathOnly, UrlNoScheme}
Methods == {"GET", "POST", "PATCH"}
Contents == {<<>>, <<"{", "}">>}

\* The name service: the records of each host name, in the order the
\* resolver returns them; ok says whether a connect to the address succeeds.
Rec(f, ok) == [family |-> f, ok |-> ok]
HostDual == <<"a">>
HostV4   == <<"b">>
HostV6   == <<"c">>
HostTwo6 == <<"d">>
HostDead == <<"e">>
HostNone == <<"n">>
Hosts == {HostDual, HostV4, HostV6, HostTwo6, HostDead, HostNone}
Dns(hostname) ==
    CASE hostname = HostDual -> <<Rec(AF_INET6, FALSE), Rec(AF_INET, TRUE)>>
      [] hostname = HostV4   -> <<Rec(AF_INET, TRUE)>>
      [] hostname = HostV6   -> <<Rec(AF_INET6, TRUE)>>
      [] hostname = HostTwo6 -> <<Rec(AF_INET6, FALSE), Rec(AF_INET6, TRUE)>>
      [] hostname = HostDead -> <<Rec(AF_INET6, FALSE), Rec(AF_INET, FALSE)>>
      [] OTHER               -> <<>>

VARIABLES
    obj,             \* which class the behaviour instantiates
    \* ---- EspHttp ----
    client_,         \* esp_http_client_handle_t, NULL or a handle
    status_code_,
    content_length_,
    h_pc,            \* position of the caller inside Open
    cfg,             \* arguments of the Open in progress / last Open
    retry_count,
    last_err,
    has_ipv6,        \* result of the diagnostic pre-resolution
    h_ret,           \* return value of the last Open ("none" before any)
    live,            \* connection objects initialised and not cleaned up
    next_handle,     \* next fresh connection object
    h_log,           \* library calls made since the last Open began
    response_body_,  \* the body accumulator: per byte, the connection object
                     \* it came from (NULL for a byte that resize filled in)
    resp_status,     \* status code of the response whose headers the last
                     \* Open fetched (0 when it fetched none)
    aborted          \* GetBody ended the program (failed assert, or the
                     \* exception of resize)

VARIABLES
    \* ---- EspUdp ----
    udp_fd_,         \* the session's descriptor, NO_FD when it has none
    connected_,
    message_callback_,  \* whether a callback is registered
    joinable,        \* receive_thread_.joinable()
    u_pc,            \* position of the caller inside Connect / Disconnect
    u_host,          \* host of the Connect in progress / last Connect
    cand,            \* the addrinfo list of the Connect in progress
    rp,              \* index of the candidate under trial
    u_last,          \* last public operation that returned
    u_ret,           \* what it returned
    u_log,           \* socket calls of the Connect in progress / last Connect
    open_fds,        \* descriptors open in the socket layer
    send_calls,      \* calls of send() made so far
    send_failed,     \* a Send returned <= 0 since the last successful Connect
    crashed,         \* std::terminate was called
    disc_done,       \* Disconnect has returned and no Connect was called since
    \* ---- the receive thread ----
    rt_pc,           \* "none", "loop", "recv", "recv_bad", "cb", "done"
    rt_fd,           \* descriptor the pending recv was issued on
    rt_data,         \* datagram handed to the callback in progress
    arrived,         \* datagrams recv has returned, in order
    delivered,       \* datagrams the callback was invoked with, in order
    loops            \* receive threads started and not yet ended

http_vars == <<client_, status_code_, content_length_, h_pc, cfg, retry_count,
               last_err, has_ipv6, h_ret, live, next_handle, h_log,
               response_body_, resp_status, aborted>>
udp_vars == <<udp_fd_, connected_, message_callback_, joinable, u_pc, u_host, cand,
              rp, u_last, u_ret, u_log, open_fds, send_calls, send_failed, crashed,
              disc_done>>
rt_vars == <<rt_pc, rt_fd, rt_data, arrived, delivered, loops>>
vars == <<obj, http_vars, udp_vars, rt_vars>>

(* ------------------------------ strings ------------------------------- *)
\* strchr from position from: index of the first ch at or after from, or 0
StrChr(s, from, ch) ==
    LET hits == {i \in from..Len(s) : s[i] = ch}
    IN  IF hits = {} THEN 0 ELSE CHOOSE i \in hits : \A j \in hits : i <= j

\* a search that stops at the first character of the pattern
StrStrFirstChar(s, pat) == StrChr(s, 1, pat[1])

\* strstr: index of the first occurrence of pat in s, 0 when there is none
StrStr(s, pat) ==
    LET hits == {i \in 1..(Len(s) - Len(pat) + 1) :
                    SubSeq(s, i, i + Len(pat) - 1) = pat}
    IN  IF hits = {} THEN 0 ELSE CHOOSE i \in hits : \A j \in hits : i <= j

SchemeDelim == <<":", "/", "/">>

\* getaddrinfo with hints.ai_family = family: the records of that family
\* (all of them for AF_UNSPEC); an empty answer is the error return
GetAddrInfo(hostname, family) ==
    LET all == Dns(hostname)
        sel == SelectSeq(all, LAMBDA r : family = AF_UNSPEC \/ r.family = family)
    IN  [err |-> sel = <<>>, res |-> sel]

\* resolve_url: ret is its return value, queried whether getaddrinfo ran,
\* hostname the host name it extracted
resolve_url(url) ==
    LET p == StrStr(url, SchemeDelim)
        fail == [ret |-> FALSE, queried |-> FALSE, hostname |-> <<>>]
    IN  IF p = 0 THEN fail
        ELSE
        LET after == p + 3
            is_ipv6_format == after <= Len(url) /\ url[after] = "["
            host_start == IF is_ipv6_format THEN after + 1 ELSE after
            colon == StrChr(url, host_start, ":")
            path == StrChr(url, host_start, "/")
            plain_end == IF colon = 0 \/ (path # 0 /\ path < colon)
                         THEN (IF path = 0 THEN Len(url) + 1 ELSE path)
                         ELSE colon
            host_end == IF is_ipv6_format THEN StrChr(url, host_start, "]")
                        ELSE plain_end
        IN  IF host_end = 0 THEN fail
            ELSE
            LET hostname == SubSeq(url, host_start, host_end - 1)
                ai == GetAddrInfo(hostname, AF_UNSPEC)
            IN  IF Len(hostname) >= HOSTNAME_SIZE THEN fail
                ELSE [ret |-> ~ai.err /\ \E i \in 1..Len(ai.res) :
                                             ai.res[i].family = AF_INET6,
                      queried |-> TRUE, hostname |-> hostname]

(* ------------------------------ EspHttp ------------------------------- *)
Ev(e, h) == [ev |-> e, h |-> h]

\* method string to HTTP method, anything unknown is GET
MethodOf(method) ==
    IF method \in {"GET", "POST", "PUT", "DELETE"} THEN method ELSE "GET"

\* a Close that drops the handle without cleaning the object up
CloseLeak(c, lv, lg) == [client |-> NULL, live |-> lv, log |-> lg]

\* a Close that cleans up and keeps the stale handle
CloseKeepHandle(c, lv, lg) ==
    IF c # NULL
    THEN [client |-> c, live |-> lv \ {c}, log |-> Append(lg, Ev("cleanup", c))]
    ELSE [client |-> c, live |-> lv, log |-> lg]

\* a retry loop that keeps the connection object of the previous attempt
CloseSkipped(c, lv, lg) == [client |-> c, live |-> lv, log |-> lg]

\* EspHttp::Close on a client holding c: the new handle, live set and log
Close(c, lv, lg) ==
    IF c # NULL
    THEN [client |-> NULL, live |-> lv \ {c}, log |-> Append(lg, Ev("cleanup", c))]
    ELSE [client |-> c, live |-> lv, log |-> lg]

\* a loop condition that is off by one
RetryLoopCondInclusive(rc) == rc <= max_connect_retries

\* the loop condition of the retry loop
RetryLoopCond(rc) == rc < max_connect_retries

\* a delay taken on every pass, the first included
RetryDelayEveryPass(rc, lg) == Append(lg, Ev("delay", 0))

\* the delay taken at the head of an iteration
RetryDelay(rc, lg) == IF rc > 0 THEN Append(lg, Ev("delay", 0)) ELSE lg

HttpIdle == obj = "EspHttp" /\ h_pc = "idle" /\ ~aborted

\* Open, lines 24-57: configuration and the diagnostic pre-resolution
OpenCall ==
    /\ HttpIdle
    /\ \E method \in Methods, url \in Urls, content \in Contents :
          LET r == resolve_url(url) IN
          /\ cfg' = [method |-> method, url |-> url, content |-> content]
          /\ has_ipv6' = r.ret
          /\ h_log' = IF r.queried THEN <<Ev("getaddrinfo", 0)>> ELSE <<>>
    /\ retry_count' = 0
    /\ last_err' = ESP_OK
    /\ h_ret' = "none"
    /\ h_pc' = "loop"
    /\ resp_status' = 0
    /\ UNCHANGED <<obj, client_, status_code_, content_length_, live, next_handle>>
    /\ UNCHANGED <<udp_vars, rt_vars, response_body_, aborted>>

\* Open, lines 59-86: one pass through the head of the retry loop, up to the
\* initialised client; the loop exit when the retries are used up
OpenIterate ==
    /\ obj = "EspHttp" /\ h_pc = "loop"
    /\ IF RetryLoopCond(retry_count)
       THEN LET lg1 == RetryDelay(retry_count, h_log)
                c1  == Close(client_, live, lg1)
            IN  \E ok \in BOOLEAN :
                  IF ok /\ next_handle <= MaxHandles
                  THEN /\ client_' = next_handle
                       /\ next_handle' = next_handle + 1
                       /\ live' = c1.live \cup {next_handle}
                       /\ h_log' = c1.log \o <<Ev("init", next_handle),
                                              Ev(MethodOf(cfg.method), next_handle)>>
                       /\ h_pc' = "open"
                       /\ h_ret' = h_ret
                  ELSE /\ client_' = NULL
                       /\ next_handle' = next_handle
                       /\ live' = c1.live
                       /\ h_log' = Append(c1.log, Ev("init_failed", 0))
                       /\ h_pc' = "idle"
                       /\ h_ret' = "false"
       ELSE /\ h_pc' = "check"
            /\ UNCHANGED <<client_, next_handle, live, h_log, h_ret>>
    /\ UNCHANGED <<obj, status_code_, content_length_, cfg, retry_count, last_err,
                   has_ipv6>>
    /\ UNCHANGED <<udp_vars, rt_vars, response_body_, resp_status, aborted>>

\* Open, lines 88-100: esp_http_client_open and its outcome
OpenAttempt ==
    /\ obj = "EspHttp" /\ h_pc = "open"
    /\ \E err \in {ESP_OK} \cup ConnectErrors :
          /\ last_err' = err
          /\ h_log' = Append(h_log, Ev(IF err = ESP_OK THEN "open_ok" ELSE "open_failed",
                                       client_))
          /\ IF err = ESP_OK
             THEN h_pc' = "check" /\ retry_count' = retry_count
             ELSE h_pc' = "loop" /\ retry_count' = retry_count + 1
    /\ UNCHANGED <<obj, client_, status_code_, content_length_, cfg, has_ipv6, h_ret,
                   live, next_handle>>
    /\ UNCHANGED <<udp_vars, rt_vars, response_body_, resp_status, aborted>>

\* Open, lines 103-120: all attempts failed
OpenCheck ==
    /\ obj = "EspHttp" /\ h_pc = "check"
    /\ IF last_err # ESP_OK
       THEN LET c == Close(client_, live, h_log) IN
            /\ client_' = c.client /\ live' = c.live /\ h_log' = c.log
            /\ h_ret' = "false" /\ h_pc' = "idle"
       ELSE /\ h_pc' = "write"
            /\ UNCHANGED <<client_, live, h_log, h_ret>>
    /\ UNCHANGED <<obj, status_code_, content_length_, cfg, retry_count, last_err,
                   has_ipv6, next_handle>>
    /\ UNCHANGED <<udp_vars, rt_vars, response_body_, resp_status, aborted>>

\* what the body write can return: an error, or the bytes written
WriteResults(content) == {-1, Len(content)}

\* a test that lets the error value through
WriteFailedNever(written) == written < -1

\* the test on the result of the body write
WriteFailed(written) == written < 0

\* Open, lines 122-127: the request body
OpenWrite ==
    /\ obj = "EspHttp" /\ h_pc = "write"
    /\ \E written \in WriteResults(cfg.content) :
          LET lg == Append(h_log, Ev(IF written < 0 THEN "write_failed" ELSE "write",
                                     client_))
              c  == Close(client_, live, lg)
          IN  IF WriteFailed(written)
              THEN /\ client_' = c.client /\ live' = c.live /\ h_log' = c.log
                   /\ h_ret' = "false" /\ h_pc' = "idle"
              ELSE /\ h_log' = lg /\ h_pc' = "fetch"
                   /\ UNCHANGED <<client_, live, h_ret>>
    /\ UNCHANGED <<obj, status_code_, content_length_, cfg, retry_count, last_err,
                   has_ipv6, next_handle>>
    /\ UNCHANGED <<udp_vars, rt_vars, response_body_, resp_status, aborted>>

\* what esp_http_client_fetch_headers can return
FetchResults == {-1, 0, 2}

\* the status code a response carries
StatusCodes == {200}

\* a test that accepts a declared length of zero
HeadersOkZero(len) == len >= 0

\* the test on the declared content length
HeadersOk(len) == len > 0

\* Open, lines 128-134: the response headers
OpenFetch ==
    /\ obj = "EspHttp" /\ h_pc = "fetch"
    /\ \E len \in FetchResults :
          LET lg == Append(h_log, Ev(IF len > 0 THEN "fetch" ELSE "fetch_failed",
                                     client_))
              c  == Close(client_, live, lg)
          IN  /\ content_length_' = len
              /\ resp_status' \in (IF len >= 0 THEN StatusCodes ELSE {0})
              /\ IF HeadersOk(len)
                 THEN /\ h_log' = lg /\ h_ret' = "true"
                      /\ UNCHANGED <<client_, live>>
                 ELSE /\ client_' = c.client /\ live' = c.live /\ h_log' = c.log
                      /\ h_ret' = "false"
              /\ h_pc' = "idle"
    /\ UNCHANGED <<obj, status_code_, cfg, retry_count, last_err, has_ipv6,
                   next_handle>>
    /\ UNCHANGED <<udp_vars, rt_vars, response_body_, aborted>>

\* EspHttp::Close called by the owner
HttpClose ==
    /\ HttpIdle
    /\ LET c == Close(client_, live, h_log) IN
       client_' = c.client /\ live' = c.live /\ h_log' = c.log
    /\ UNCHANGED <<obj, status_code_, content_length_, h_pc, cfg, retry_count,
                   last_err, has_ipv6, h_ret, next_handle>>
    /\ UNCHANGED <<udp_vars, rt_vars, response_body_, resp_status, aborted>>

\* EspHttp::GetStatusCode
GetStatusCode == status_code_

\* HttpEventHandler, lines 173-185: a data event of data_len bytes coming from
\* connection object c is appended to the accumulator of the client
HttpEventHandler(body, c, data_len) ==
    IF data_len > 0 THEN body \o [i \in 1..data_len |-> c] ELSE body

\* what esp_http_client_read can return for a buffer of buffer_size bytes
ReadResults(buffer_size) == {-1} \cup 0..buffer_size

\* the data events esp_http_client_read can dispatch while it runs: none, an
\* empty one, or one byte (as long as the accumulator is short of MaxBody)
DataEvents(body) == IF Len(body) < MaxBody THEN {-1, 0, 1} ELSE {-1, 0}

\* EspHttp::Read, lines 168-171, called by the owner with a buffer of its own
Read ==
    /\ HttpIdle
    /\ IF client_ = NULL
       THEN UNCHANGED response_body_
       ELSE \E data_len \in DataEvents(response_body_) :
              response_body_' = IF data_len < 0 THEN response_body_
                                ELSE HttpEventHandler(response_body_, client_, data_len)
    /\ UNCHANGED <<obj, client_, status_code_, content_length_, h_pc, cfg,
                   retry_count, last_err, has_ipv6, h_ret, live, next_handle, h_log,
                   resp_status, aborted>>
    /\ UNCHANGED <<udp_vars, rt_vars>>

\* std::string::resize: cut to n bytes or fill up to n bytes
Resize(body, n) == [i \in 1..n |-> IF i <= Len(body) THEN body[i] ELSE NULL]

\* EspHttp::GetBody, lines 162-166: resize to the declared length, read into
\* the accumulator in place, and assert that the read filled it. A negative
\* length makes resize throw; a build with NDEBUG drops the assert and the
\* Read inside it.
GetBody ==
    /\ HttpIdle
    /\ IF content_length_ < 0
       THEN aborted' = TRUE /\ UNCHANGED response_body_
       ELSE LET sized == Resize(response_body_, content_length_) IN
            \E ndebug \in BOOLEAN :
               IF ndebug
               THEN response_body_' = sized /\ UNCHANGED aborted
               ELSE IF client_ = NULL
                    THEN response_body_' = sized /\ aborted' = TRUE
                    ELSE \E ret \in ReadResults(content_length_),
                            data_len \in DataEvents(sized) :
                           LET filled == [i \in 1..Len(sized) |->
                                            IF i <= ret THEN client_ ELSE sized[i]]
                           IN  /\ response_body_' =
                                    IF data_len < 0 THEN filled
                                    ELSE HttpEventHandler(filled, client_, data_len)
                               /\ aborted' = (ret # content_length_)
    /\ UNCHANGED <<obj, client_, status_code_, content_length_, h_pc, cfg, retry_count,
                   last_err, has_ipv6, h_ret, live, next_handle, h_log, resp_status>>
    /\ UNCHANGED <<udp_vars, rt_vars>>

(* ------------------------------- EspUdp ------------------------------- *)
Payloads == {<<>>, <<"a">>, <<"b">>}
SendData == {<<>>, <<"x">>}

UEv(e, fd, f) == [ev |-> e, fd |-> fd, family |-> f]

UdpIdle == obj = "EspUdp" /\ u_pc = "idle" /\ ~crashed

\* close(fd) in the socket layer: the descriptor is released
CloseFd(fd, fds) == fds \ {fd}

\* a recv blocked on fd returns an error once fd is closed
WakeReceiver(fd, pc, rfd) == IF pc = "recv" /\ rfd = fd THEN "recv_bad" ELSE pc

\* socket(): the lowest free descriptor, or -1
SocketResults(fds) ==
    LET free == (0..(MaxFds - 1)) \ fds
    IN  {NO_FD} \cup (IF free = {} THEN {}
                      ELSE {CHOOSE f \in free : \A g \in free : f <= g})

\* the address family Connect asks the resolver for
ConnectHintFamily == AF_INET6

\* Connect, lines 20-35: name resolution
ConnectCall ==
    /\ UdpIdle
    /\ \E host \in Hosts :
          LET ai == GetAddrInfo(host, ConnectHintFamily) IN
          /\ u_host' = host
          /\ u_log' = <<>>
          /\ IF ai.err
             THEN /\ u_ret' = "false" /\ u_last' = "Connect" /\ u_pc' = "idle"
                  /\ UNCHANGED <<cand, rp>>
             ELSE /\ cand' = ai.res /\ rp' = 1 /\ u_pc' = "c_socket"
                  /\ UNCHANGED <<u_ret, u_last>>
    /\ disc_done' = FALSE
    /\ UNCHANGED <<obj, http_vars, rt_vars, udp_fd_, connected_, message_callback_,
                   joinable, open_fds, send_calls, send_failed, crashed>>

\* Connect, lines 38-50: the loop test and socket() for the next candidate
ConnectSocket ==
    /\ obj = "EspUdp" /\ u_pc = "c_socket" /\ ~crashed
    /\ IF rp > Len(cand)
       THEN /\ u_pc' = "c_done"
            /\ UNCHANGED <<udp_fd_, open_fds, rp, u_log>>
       ELSE \E fd \in SocketResults(open_fds) :
              /\ udp_fd_' = fd
              /\ IF fd < 0
                 THEN /\ rp' = rp + 1 /\ u_pc' = "c_socket"
                      /\ u_log' = Append(u_log, UEv("socket_failed", fd, cand[rp].family))
                      /\ UNCHANGED open_fds
                 ELSE /\ open_fds' = open_fds \cup {fd}
                      /\ u_log' = Append(u_log, UEv("socket", fd, cand[rp].family))
                      /\ u_pc' = "c_connect" /\ rp' = rp
    /\ UNCHANGED <<obj, http_vars, rt_vars, connected_, message_callback_, joinable,
                   u_host, cand, u_last, u_ret, send_calls, send_failed, crashed,
                   disc_done>>

\* Connect, lines 52-58: connect() on the candidate, close() when it fails
ConnectTry ==
    /\ obj = "EspUdp" /\ u_pc = "c_connect" /\ ~crashed
    /\ IF cand[rp].ok
       THEN /\ u_log' = Append(u_log, UEv("connect", udp_fd_, cand[rp].family))
            /\ u_pc' = "c_done"
            /\ UNCHANGED <<udp_fd_, open_fds, rp, rt_pc>>
       ELSE /\ u_log' = u_log \o <<UEv("connect_failed", udp_fd_, cand[rp].family),
                                   UEv("close", udp_fd_, cand[rp].family)>>
            /\ open_fds' = CloseFd(udp_fd_, open_fds)
            /\ rt_pc' = WakeReceiver(udp_fd_, rt_pc, rt_fd)
            /\ udp_fd_' = NO_FD
            /\ rp' = rp + 1
            /\ u_pc' = "c_socket"
    /\ UNCHANGED <<obj, http_vars, rt_fd, rt_data, arrived, delivered, loops,
                   connected_, message_callback_, joinable, u_host, cand, u_last,
                   u_ret, send_calls, send_failed, crashed, disc_done>>

\* Connect, lines 60-82: the result; on success the flag and the thread.
\* Line 80 first constructs the new std::thread, which starts ReceiveTask,
\* and then move-assigns it: assigning to a std::thread that is still
\* joinable calls std::terminate.
\* Lines 67-77 read rp->ai_family after freeaddrinfo(result): whatever they
\* read only selects a log line, which is not part of the state.
ConnectFinish ==
    /\ obj = "EspUdp" /\ u_pc = "c_done" /\ ~crashed
    /\ IF udp_fd_ < 0
       THEN /\ u_ret' = "false" /\ u_last' = "Connect" /\ u_pc' = "idle"
            /\ UNCHANGED <<connected_, joinable, crashed, rt_pc, send_failed, loops>>
       ELSE /\ connected_' = TRUE
            /\ send_failed' = FALSE
            /\ loops' = loops + 1
            /\ IF joinable
               THEN /\ crashed' = TRUE /\ u_pc' = "terminated"
                    /\ UNCHANGED <<u_ret, u_last, joinable, rt_pc>>
               ELSE /\ joinable' = TRUE /\ rt_pc' = "loop"
                    /\ u_ret' = "true" /\ u_last' = "Connect" /\ u_pc' = "idle"
                    /\ UNCHANGED crashed
    /\ UNCHANGED <<obj, http_vars, rt_fd, rt_data, arrived, delivered, udp_fd_,
                   message_callback_, u_host, cand, rp, u_log, open_fds, send_calls,
                   disc_done>>

\* Disconnect, lines 85-89: close the descriptor, clear the flag
DisconnectClose ==
    /\ UdpIdle
    /\ IF udp_fd_ # NO_FD
       THEN /\ open_fds' = CloseFd(udp_fd_, open_fds)
            /\ rt_pc' = WakeReceiver(udp_fd_, rt_pc, rt_fd)
            /\ udp_fd_' = NO_FD
       ELSE UNCHANGED <<open_fds, rt_pc, udp_fd_>>
    /\ connected_' = FALSE
    /\ u_pc' = "d_join"
    /\ UNCHANGED <<obj, http_vars, rt_fd, rt_data, arrived, delivered, loops,
                   message_callback_, joinable, u_host, cand, rp, u_last, u_ret, u_log,
                   send_calls, send_failed, crashed, disc_done>>

\* a Disconnect that never joins
MustJoinNever(j) == FALSE

\* whether Disconnect has to join the receive thread
MustJoin(j) == j

\* Disconnect, lines 90-92: join blocks until the receive thread has ended
DisconnectJoin ==
    /\ obj = "EspUdp" /\ u_pc = "d_join" /\ ~crashed
    /\ IF MustJoin(joinable)
       THEN /\ rt_pc = "done"
            /\ rt_pc' = "none" /\ joinable' = FALSE
       ELSE UNCHANGED <<rt_pc, joinable>>
    /\ u_pc' = "idle" /\ u_last' = "Disconnect" /\ u_ret' = "void"
    /\ disc_done' = TRUE
    /\ UNCHANGED <<obj, http_vars, rt_fd, rt_data, arrived, delivered, loops,
                   udp_fd_, connected_, message_callback_, u_host, cand, rp, u_log,
                   open_fds, send_calls, send_failed, crashed>>

\* whether Send hands the data to send() at all
SendWrites(conn) == TRUE

\* what send() returns on descriptor fd
SendResults(fd, fds, data) == IF fd \in fds THEN {-1, Len(data)} ELSE {-1}

\* Send, lines 95-102
Send ==
    /\ UdpIdle
    /\ send_calls < MaxSends
    /\ \E data \in SendData :
          IF SendWrites(connected_)
          THEN \E ret \in SendResults(udp_fd_, open_fds, data) :
                 /\ send_calls' = send_calls + 1
                 /\ connected_' = IF ret <= 0 THEN FALSE ELSE connected_
                 /\ send_failed' = IF ret <= 0 THEN TRUE ELSE send_failed
                 /\ u_ret' = IF ret <= 0 THEN "nonpositive" ELSE "positive"
          ELSE /\ u_ret' = "nonpositive"
               /\ UNCHANGED <<send_calls, connected_, send_failed>>
    /\ u_last' = "Send"
    /\ UNCHANGED <<obj, http_vars, rt_vars, udp_fd_, message_callback_, joinable, u_pc,
                   u_host, cand, rp, u_log, open_fds, crashed, disc_done>>

\* ReceiveTask, lines 105-108: the thread reads udp_fd_ and enters recv
RecvIssue ==
    /\ obj = "EspUdp" /\ rt_pc = "loop" /\ ~crashed
    /\ rt_fd' = udp_fd_
    /\ rt_pc' = IF udp_fd_ \in open_fds THEN "recv" ELSE "recv_bad"
    /\ UNCHANGED <<obj, http_vars, udp_vars, rt_data, arrived, delivered, loops>>

\* the loop leaves on a non-positive receive result
RecvStops(ret) == ret <= 0

\* ReceiveTask, lines 108-115: recv returns a datagram (an empty one gives 0)
RecvData ==
    /\ obj = "EspUdp" /\ rt_pc = "recv" /\ ~crashed
    /\ Len(arrived) < MaxDatagrams
    /\ \E d \in Payloads :
          /\ arrived' = Append(arrived, d)
          /\ IF RecvStops(Len(d))
             THEN /\ rt_pc' = "done" /\ loops' = loops - 1
                  /\ UNCHANGED <<rt_data, delivered>>
             ELSE IF message_callback_
                  THEN /\ rt_pc' = "cb" /\ rt_data' = d
                       /\ delivered' = Append(delivered, d)
                       /\ UNCHANGED loops
                  ELSE rt_pc' = "loop" /\ UNCHANGED <<rt_data, delivered, loops>>
    /\ UNCHANGED <<obj, http_vars, udp_vars, rt_fd>>

\* ReceiveTask, lines 108-111: recv returns an error; the thread function ends
RecvError ==
    /\ obj = "EspUdp" /\ rt_pc \in {"recv", "recv_bad"} /\ ~crashed
    /\ rt_pc' = "done" /\ loops' = loops - 1
    /\ UNCHANGED <<obj, http_vars, udp_vars, rt_fd, rt_data, arrived, delivered>>

\* ReceiveTask, lines 113-116: the callback returns, the loop goes on
CallbackReturn ==
    /\ obj = "EspUdp" /\ rt_pc = "cb" /\ ~crashed
    /\ rt_pc' = "loop"
    /\ UNCHANGED <<obj, http_vars, udp_vars, rt_fd, rt_data, arrived, delivered, loops>>

\* connected_ and message_callback_ are declared in esp_udp.h; the flag is
\* taken to start false, the callback may or may not have been registered
UdpInit ==
    /\ udp_fd_ = NO_FD /\ connected_ = FALSE /\ joinable = FALSE
    /\ u_pc = "idle" /\ u_host = <<>> /\ cand = <<>> /\ rp = 1
    /\ u_last = "none" /\ u_ret = "none" /\ u_log = <<>>
    /\ open_fds = {} /\ send_calls = 0 /\ send_failed = FALSE /\ crashed = FALSE
    /\ disc_done = FALSE
    /\ rt_pc = "none" /\ rt_fd = NO_FD /\ rt_data = <<>>
    /\ arrived = <<>> /\ delivered = <<>> /\ loops = 0

HttpInit ==
    /\ client_ = NULL /\ status_code_ = 0 /\ content_length_ = 0
    /\ h_pc = "idle"
    /\ cfg = [method |-> "GET", url |-> <<>>, content |-> <<>>]
    /\ retry_count = 0 /\ last_err = ESP_OK /\ has_ipv6 = FALSE
    /\ h_ret = "none" /\ live = {} /\ next_handle = 1 /\ h_log = <<>>
    /\ response_body_ = <<>> /\ resp_status = 0 /\ aborted = FALSE

Init ==
    /\ HttpInit /\ UdpInit
    /\ \/ obj = "EspHttp" /\ message_callback_ = FALSE
       \/ obj = "EspUdp" /\ message_callback_ \in BOOLEAN

Next == OpenCall \/ OpenIterate \/ OpenAttempt \/ OpenCheck \/ OpenWrite
           \/ OpenFetch \/ HttpClose \/ Read \/ GetBody
           \/ ConnectCall \/ ConnectSocket \/ ConnectTry \/ ConnectFinish
           \/ DisconnectClose \/ DisconnectJoin \/ Send
           \/ RecvIssue \/ RecvData \/ RecvError \/ CallbackReturn

Spec == Init /\ [][Next]_vars

(* ------------------------- reading the Open log ----------------------- *)
AttemptEvents == {"open_ok", "open_failed"}
Count(lg, evs) == Cardinality({i \in 1..Len(lg) : lg[i].ev \in evs})
Attempts(lg) == Count(lg, AttemptEvents)
Delays(lg) == Count(lg, {"delay"})
Has(lg, e) == \E i \in 1..Len(lg) : lg[i].ev = e
OpenReturned == obj = "EspHttp" /\ h_pc = "idle" /\ h_ret # "none"

(* ------------------------------- claims ------------------------------- *)
\* C1: an Open makes at most 3 calls of esp_http_client_open, and no call
\* follows one that succeeded.
C1_AtMostThreeAttempts ==
    /\ Attempts(h_log) <= 3
    /\ \A i \in 1..Len(h_log) : h_log[i].ev = "open_ok" =>
          \A j \in (i + 1)..Len(h_log) : h_log[j].ev \notin AttemptEvents

\* an Open that used all three attempts and failed
C1_Witness ==
    /\ OpenReturned /\ h_ret = "false"
    /\ Attempts(h_log) = 3 /\ ~Has(h_log, "open_ok")

\* C2 as stated: an Open that made n >= 1 connect attempts took exactly n-1
\* delays.
C2_Original ==
    (OpenReturned /\ Attempts(h_log) >= 1) => Delays(h_log) = Attempts(h_log) - 1

\* C2 amended: at every connect attempt the delays taken so far are one less
\* than the attempts made so far (one delay between consecutive attempts,
\* none before the first); an Open that returns with n >= 1 attempts has taken
\* n-1 delays unless it ended on a failed client initialisation, and then n;
\* two failures followed by a success, a body write and a header fetch that
\* succeed, return true with 3 attempts and 2 delays.
C2_DelaysBetweenAttempts ==
    /\ \A i \in 1..Len(h_log) :
          /\ h_log[i].ev \in AttemptEvents =>
                Delays(SubSeq(h_log, 1, i)) = Attempts(SubSeq(h_log, 1, i)) - 1
          /\ h_log[i].ev = "delay" =>
                Delays(SubSeq(h_log, 1, i)) = Attempts(SubSeq(h_log, 1, i))
    /\ (OpenReturned /\ Attempts(h_log) >= 1) =>
          Delays(h_log) = Attempts(h_log) - (IF Has(h_log, "init_failed") THEN 0 ELSE 1)
    /\ (OpenReturned /\ Count(h_log, {"open_failed"}) = 2 /\ Has(h_log, "open_ok")
           /\ Has(h_log, "write") /\ Has(h_log, "fetch")) =>
          (h_ret = "true" /\ Attempts(h_log) = 3 /\ Delays(h_log) = 2)

\* the scenario: GET, two failed attempts, success on the third
C2_Witness ==
    /\ OpenReturned /\ h_ret = "true"
    /\ cfg.method = "GET" /\ cfg.url = UrlPlain /\ cfg.content = <<>>
    /\ Attempts(h_log) = 3 /\ Delays(h_log) = 2

RtRunning == rt_pc \in {"loop", "recv", "recv_bad", "cb"}

\* C3: once Disconnect has returned the receive loop has ended (it is not
\* at any of its steps), and while no Connect is called no callback begins:
\* the delivered datagrams stay as they were.
C3_DisconnectJoinsReceiver ==
    /\ [](disc_done => ~RtRunning)
    /\ [][(disc_done /\ disc_done') => delivered' = delivered]_vars

\* Disconnect has returned on a session whose callback had run
C3_Witness ==
    /\ obj = "EspUdp" /\ disc_done /\ u_pc = "idle" /\ u_last = "Disconnect"
    /\ Len(delivered) >= 1

Inits(lg) == {lg[i].h : i \in {k \in 1..Len(lg) : lg[k].ev = "init"}}
Cleanups(lg, h) == Cardinality({i \in 1..Len(lg) : lg[i].ev = "cleanup" /\ lg[i].h = h})

\* C4: when Open has returned false the client holds no handle, no
\* connection object is live, and every object initialised during that Open
\* was cleaned up exactly once (no other object more than once).
C4_FailedOpenHoldsNothing ==
    (OpenReturned /\ h_ret = "false") =>
        /\ client_ = NULL
        /\ live = {}
        /\ \A h \in Inits(h_log) : Cleanups(h_log, h) = 1
        /\ \A h \in 1..MaxHandles : Cleanups(h_log, h) <= 1

\* an Open that failed at the header fetch after a retry
C4_Witness ==
    /\ OpenReturned /\ h_ret = "false"
    /\ Has(h_log, "fetch_failed") /\ Cardinality(Inits(h_log)) = 2

\* C5: after a negative body write no header fetch is made in that Open,
\* Open returns false and the connection is closed.
C5_WriteFailureSkipsFetch ==
    Has(h_log, "write_failed") =>
        /\ ~Has(h_log, "fetch") /\ ~Has(h_log, "fetch_failed")
        /\ OpenReturned /\ h_ret = "false"
        /\ client_ = NULL /\ live = {}

\* POST with a body whose write returns -1
C5_Witness ==
    /\ OpenReturned /\ cfg.method = "POST" /\ cfg.content = <<"{", "}">>
    /\ Has(h_log, "write_failed")

\* C6: Open returns true exactly when an attempt (of at most 3) succeeded,
\* the body write was non-negative and the header fetch gave a positive
\* length; a non-positive length closes the connection and returns false.
C6_OpenResult ==
    OpenReturned =>
        /\ h_ret = "true" <=>
              (Has(h_log, "open_ok") /\ Has(h_log, "write") /\ Has(h_log, "fetch"))
        /\ h_ret = "true" =>
              /\ Attempts(h_log) <= 3 /\ content_length_ > 0
              \* the connection is held until the owner closes it
              /\ \/ h_log[Len(h_log)].ev = "fetch" /\ client_ \in live
                 \/ h_log[Len(h_log)].ev = "cleanup" /\ client_ = NULL
        /\ Has(h_log, "fetch_failed") => (h_ret = "false" /\ client_ = NULL /\ live = {})

\* an Open that succeeded on its second attempt
C6_Witness ==
    /\ OpenReturned /\ h_ret = "true" /\ Attempts(h_log) = 2

\* C7: a Close leaves a state in which Close changes nothing, and a
\* Disconnect that follows a Disconnect closes no descriptor, joins no
\* thread, changes nothing of the session and does not terminate the program.
C7_CloseDisconnectIdempotent ==
    [][ /\ HttpClose =>
             /\ client_' = NULL
             /\ Close(client_', live', h_log') =
                  [client |-> client_', live |-> live', log |-> h_log']
        /\ DisconnectJoin => (udp_fd_' = NO_FD /\ ~connected_' /\ ~joinable')
        /\ ((DisconnectClose \/ DisconnectJoin) /\ u_last = "Disconnect") =>
             /\ UNCHANGED <<udp_fd_, connected_, joinable, open_fds, rt_vars>>
             /\ ~crashed'
      ]_vars

\* the second of two Disconnects in a row, on a session that was connected
C7_Witness ==
    /\ obj = "EspUdp" /\ u_last = "Disconnect" /\ u_pc = "d_join"
    /\ u_log # <<>> /\ u_log[Len(u_log)].ev = "connect"

\* whether the character sequence holds "://"; written without StrStr, so
\* that it says what the URL is and not what the code finds in it
LacksSchemeDelim(url) ==
    ~\E i \in 1..Len(url) :
        i + 2 <= Len(url) /\ url[i] = ":" /\ url[i + 1] = "/" /\ url[i + 2] = "/"
OpenBegun == obj = "EspHttp" /\ (h_pc # "idle" \/ h_ret # "none")

\* C8 as stated: an Open given a URL without "://" fails to resolve it and
\* creates no connection object.
C8_Original ==
    (OpenBegun /\ LacksSchemeDelim(cfg.url)) =>
        (~has_ipv6 /\ ~Has(h_log, "getaddrinfo") /\ ~Has(h_log, "init"))

\* C8 amended: for a URL without "://" the pre-resolution fails before any
\* name lookup, so the resolution itself opens nothing; Open takes that
\* result as a diagnostic only and goes on into the retry loop, where it
\* initialises a connection object as for any URL.
C8_ResolutionFailsWithoutLookup ==
    /\ [](OpenBegun /\ LacksSchemeDelim(cfg.url) =>
            (~has_ipv6 /\ ~Has(h_log, "getaddrinfo")))
    /\ [][OpenCall => (h_pc' = "loop" /\ UNCHANGED <<client_, live>>)]_vars

\* an Open given "a/p:8" that went on to initialise a connection object
C8_Witness ==
    /\ OpenBegun /\ cfg.url = UrlNoScheme /\ ~has_ipv6
    /\ Has(h_log, "init")

\* C9 as stated: a Send that returns a non-positive result marks the session
\* disconnected, and from then until a Connect succeeds no Send writes to
\* the socket (stated where the session's socket is open, so that the write
\* is one that reaches a socket).
C9_Original ==
    /\ []((obj = "EspUdp" /\ u_last = "Send" /\ u_ret = "nonpositive") => ~connected_)
    /\ [][(send_failed /\ udp_fd_ \in open_fds) => send_calls' = send_calls]_vars

UsableV4(host) == \E i \in 1..Len(Dns(host)) :
                     Dns(host)[i].family = AF_INET /\ Dns(host)[i].ok
UsableV6(host) == \E i \in 1..Len(Dns(host)) :
                     Dns(host)[i].family = AF_INET6 /\ Dns(host)[i].ok
ConnectReturned == obj = "EspUdp" /\ u_pc = "idle" /\ u_last = "Connect"

\* C10 as stated: a Connect to a host of which only an IPv4 address is
\* reachable returns true on a socket connected to that IPv4 address, every
\* socket of a failed IPv6 attempt having been closed; and a Connect (whose
\* sockets could all be created) returns false only if no address of either
\* family connects.
C10_Original ==
    /\ (ConnectReturned /\ UsableV4(u_host) /\ ~UsableV6(u_host)
          /\ ~\E i \in 1..Len(u_log) : u_log[i].ev = "socket_failed") =>
          /\ u_ret = "true"
          /\ u_log # <<>>
          /\ u_log[Len(u_log)].ev = "connect"
          /\ u_log[Len(u_log)].family = AF_INET
          /\ \A i \in 1..Len(u_log) : u_log[i].ev = "connect_failed" =>
                (i < Len(u_log) /\ u_log[i + 1].ev = "close"
                   /\ u_log[i + 1].fd = u_log[i].fd)
    /\ (ConnectReturned /\ u_ret = "false"
          /\ ~\E i \in 1..Len(u_log) : u_log[i].ev = "socket_failed") =>
          (~UsableV4(u_host) /\ ~UsableV6(u_host))

\* C11 as stated: with a callback registered, the callback is invoked once
\* for each datagram recv returns, in the order of arrival: the datagrams
\* delivered are the datagrams arrived.
C11_Original ==
    (obj = "EspUdp" /\ message_callback_) => delivered = arrived

\* C14 as stated: between public operations a receive loop is live exactly
\* when the connected flag is set.
C14_Original ==
    UdpIdle => (RtRunning <=> connected_)

\* C15 as stated: the receive loop never issues a recv on a descriptor that
\* has been closed or reset to -1.
C15_Original ==
    [][RecvIssue => udp_fd_ \in open_fds]_vars

\* C16 as stated: the session never holds more than one open descriptor, a
\* failed candidate's socket is closed before the next socket is created,
\* and once Disconnect has returned no descriptor of the session is open.
C16_Original ==
    /\ Cardinality(open_fds) <= 1
    /\ (obj = "EspUdp" /\ u_pc = "c_socket") =>
          \A i \in 1..Len(u_log) : u_log[i].ev = "socket" =>
             \E j \in (i + 1)..Len(u_log) :
                u_log[j].ev = "close" /\ u_log[j].fd = u_log[i].fd
    /\ disc_done => open_fds = {}
\* C12 as stated: at most one receive loop exists per session at any time,
\* whatever sequence of Connect and Disconnect calls is made, a Connect while
\* already connected included.
C12_Original ==
    loops <= 1

\* C17 as stated: once the receive loop has ended (the peer's socket was shut,
\* recv returned <= 0) the session does not reconnect by itself, and a fresh
\* Connect that obtains a socket, with or without a Disconnect in between,
\* returns true with exactly one receive loop running.
C17_Original ==
    [][/\ (rt_pc = "done" /\ ~ConnectFinish) => rt_pc' \in {"done", "none"}
       /\ (ConnectFinish /\ udp_fd_ >= 0 /\ rt_pc \in {"done", "none"}) =>
             (u_ret' = "true" /\ u_pc' = "idle" /\ connected_' /\ loops' = 1
              /\ RtRunning')]_vars
\* C18: at most one connection object is live at any time, and it is the one
\* the client holds; every connect attempt of an Open runs on the object
\* initialised last, no object serves two attempts, and when an object is
\* initialised every object initialised before it has been cleaned up.
C18_FreshObjectPerAttempt ==
    /\ Cardinality(live) <= 1
    /\ live = IF client_ = NULL THEN {} ELSE {client_}
    /\ \A j \in 1..Len(h_log) : h_log[j].ev \in AttemptEvents =>
          /\ \E i \in 1..(j - 1) :
                /\ h_log[i] = Ev("init", h_log[j].h)
                /\ \A k \in (i + 1)..(j - 1) : h_log[k].ev \notin {"init"} \cup AttemptEvents
          /\ \A k \in 1..(j - 1) : h_log[k].ev \in AttemptEvents => h_log[k].h # h_log[j].h
    /\ \A j \in 1..Len(h_log) : h_log[j].ev = "init" =>
          \A i \in 1..(j - 1) : h_log[i].ev = "init" =>
             \E k \in (i + 1)..(j - 1) : h_log[k] = Ev("cleanup", h_log[i].h)

\* an Open on a client that still held the object of the previous exchange
\* made three attempts, each on an object of its own
C18_Witness ==
    /\ obj = "EspHttp" /\ Attempts(h_log) = 3
    /\ Cardinality(Inits(h_log)) = 3
    /\ \E i \in 1..Len(h_log) : h_log[i].ev = "cleanup" /\ h_log[i].h \notin Inits(h_log)
\* C13 as stated: after Open has returned true, GetStatusCode returns the
\* status code of the response received in that exchange.
C13_Original ==
    (OpenReturned /\ h_ret = "true") => GetStatusCode = resp_status

\* C19 as stated: the body accumulator holds no byte of an exchange that has
\* closed; after Close, and from the start of the next Open on, every byte
\* in it comes from the connection object of the exchange in progress.
C19_Original ==
    obj = "EspHttp" =>
       \A i \in 1..Len(response_body_) : response_body_[i] \in {NULL, client_}
\* C20 as stated: Disconnect returns from every reachable session state,
\* given that a recv on a closed or invalid descriptor returns a non-positive
\* result and that the callback returns. In finite form: while Disconnect
\* waits in join, either the join can complete or the receive thread has a
\* step to take that those two assumptions grant it (entering recv, a recv on
\* a bad descriptor failing, the callback returning); a recv pending on an
\* open descriptor is not such a step, it returns only if the peer sends.
C20_Original ==
    (obj = "EspUdp" /\ u_pc = "d_join") =>
       ENABLED (\/ DisconnectJoin
                \/ RecvIssue
                \/ RecvError /\ rt_pc = "recv_bad"
                \/ CallbackReturn)
====
